---- MODULE Spec2Model ----
(***************************************************************************)
(* Model of app.py: the /register handler of the fest registration         *)
(* backend.  Strings are sequences of one-character tokens, JSON values    *)
(* are records [t, s] (t the JSON type, s the characters of a string or    *)
(* the decimal digits of an integer), a JSON object is a function from     *)
(* keys to JSON values.  A key is a pair <<stem, suffix>> whose text is    *)
(* the concatenation of the two ("dance3" is <<"dance", "3">>).            *)
(***************************************************************************)
EXTENDS Integers, Sequences, FiniteSets, Bags, TLC

\* ------------------------------------------------------------------------
\* Bounds of the model
\* ------------------------------------------------------------------------
MaxEdits == 1
NumRequests == 2

\* ------------------------------------------------------------------------
\* Characters and Python string operations
\* ------------------------------------------------------------------------
\* "sup2" stands for U+00B2 SUPERSCRIPT TWO, a character of Unicode
\* Numeric_Type=Digit that is not a decimal digit (category No, not Nd).
AsciiDigits == {"0", "1", "2", "3", "4", "5", "6", "7", "8", "9"}

\* the characters str.strip() removes
IsSpace(c) == c = " "

\* per-character test of str.isdigit(): decimal digits and the characters
\* of Numeric_Type=Digit such as the superscript digits
CharIsDigit(c) == c \in AsciiDigits \cup {"sup2"}

\* str.isdigit(): every character is a digit and there is at least one
isdigit(s) == Len(s) > 0 /\ \A i \in 1..Len(s) : CharIsDigit(s[i])

RECURSIVE LStrip(_)
LStrip(s) == IF s # <<>> /\ IsSpace(Head(s)) THEN LStrip(Tail(s)) ELSE s

RECURSIVE RStrip(_)
RStrip(s) ==
    IF s # <<>> /\ IsSpace(s[Len(s)]) THEN RStrip(SubSeq(s, 1, Len(s) - 1)) ELSE s

\* str.strip()
strip(s) == RStrip(LStrip(s))

\* ------------------------------------------------------------------------
\* JSON values as Python sees them after request.get_json()
\* ------------------------------------------------------------------------
JStr(s) == [t |-> "str", s |-> s]
JNum(d) == [t |-> "num", s |-> d]
JTrue == [t |-> "true", s |-> <<>>]
JNull == [t |-> "null", s |-> <<>>]
JObj == [t |-> "obj", s |-> <<>>]

\* Python None is what JSON null parses to
None == JNull

\* str(x) of a parsed JSON value
str(v) ==
    CASE v.t = "str" -> v.s
      [] v.t = "num" -> v.s
      [] v.t = "true" -> <<"T", "r", "u", "e">>
      [] v.t = "null" -> <<"N", "o", "n", "e">>
      [] v.t = "obj" -> <<"{", "}">>

\* dict.get(key, default)
dict_get(d, k, default) == IF k \in DOMAIN d THEN d[k] ELSE default

\* str.startswith on a key: the prefixes used are stems of the key universe
startswith(k, p) == k[1] = p

\* ------------------------------------------------------------------------
\* The event catalog
\* ------------------------------------------------------------------------
EVENT_FIELDS ==
    << <<<<"dance", "1">>, "Dance">>, <<<<"dance", "2">>, "Dance">>,
       <<<<"dance", "3">>, "Dance">>, <<<<"dance", "4">>, "Dance">>,
       <<<<"dance", "5">>, "Dance">>, <<<<"dance", "6">>, "Dance">>,
       <<<<"dance", "7">>, "Dance">>,
       <<<<"mockPress", "">>, "Mock Press">>,
       <<<<"quiz", "1">>, "Quiz">>, <<<<"quiz", "2">>, "Quiz">>,
       <<<<"treasureHunt", "">>, "Treasure Hunt">>,
       <<<<"madAd", "1">>, "Mad Ad">>, <<<<"madAd", "2">>, "Mad Ad">>,
       <<<<"madAd", "3">>, "Mad Ad">>, <<<<"madAd", "4">>, "Mad Ad">>,
       <<<<"madAd", "5">>, "Mad Ad">>, <<<<"madAd", "6">>, "Mad Ad">>,
       <<<<"marketing", "1">>, "Marketing">>, <<<<"marketing", "2">>, "Marketing">>,
       <<<<"bottleArt", "">>, "Bottle Art">>,
       <<<<"motorMouth", "">>, "Motor Mouth">>,
       <<<<"bestManager", "">>, "Best Manager">>,
       <<<<"sharkTank", "1">>, "Shark Tank">>, <<<<"sharkTank", "2">>, "Shark Tank">>,
       <<<<"mockCid", "1">>, "Mock CID">>, <<<<"mockCid", "2">>, "Mock CID">>,
       <<<<"reelsMaking", "">>, "Reels Making">> >>

\* ------------------------------------------------------------------------
\* is_valid_phone
\* ------------------------------------------------------------------------
is_valid_phone(phone) ==
    IF phone = <<>> THEN FALSE
    ELSE LET p == strip(phone) IN isdigit(p) /\ Len(p) = 10

\* ------------------------------------------------------------------------
\* register, lines 78-148: reading the fields and validating
\* ------------------------------------------------------------------------
\* str(data.get(key, "")).strip()
ReadIdentity(data, k) == strip(str(dict_get(data, k, JStr(<<>>))))

\* raw = data.get(field_key); name = "" if raw is None else str(raw).strip()
ReadEvent(data, k) ==
    LET raw == dict_get(data, k, None)
    IN IF raw = None THEN <<>> ELSE strip(str(raw))

\* one iteration of the loop over EVENT_FIELDS
CollectStepMutant(data, i, acc) ==
    LET field_key == EVENT_FIELDS[i][1]
        event_name == EVENT_FIELDS[i][2]
        name == ReadEvent(data, field_key)
    IN IF name # <<>>
       THEN [participants |-> <<<<event_name, name>>>> \o acc.participants,
             dance_count |-> acc.dance_count
                               + (IF startswith(field_key, "dance") THEN 1 ELSE 0),
             madad_count |-> acc.madad_count
                               + (IF startswith(field_key, "madAd") THEN 1 ELSE 0)]
       ELSE acc
CollectStep(data, i, acc) ==
    LET field_key == EVENT_FIELDS[i][1]
        event_name == EVENT_FIELDS[i][2]
        name == ReadEvent(data, field_key)
    IN IF name # <<>>
       THEN [participants |-> Append(acc.participants, <<event_name, name>>),
             dance_count |-> acc.dance_count
                               + (IF startswith(field_key, "dance") THEN 1 ELSE 0),
             madad_count |-> acc.madad_count
                               + (IF startswith(field_key, "madAd") THEN 1 ELSE 0)]
       ELSE acc

\* the loop "for field_key, event_name in EVENT_FIELDS", from entry i on
RECURSIVE CollectFrom(_, _, _)
CollectFrom(data, i, acc) ==
    IF i > Len(EVENT_FIELDS) THEN acc
    ELSE CollectFrom(data, i + 1, CollectStep(data, i, acc))

Collect(data) ==
    CollectFrom(data, 1, [participants |-> <<>>, dance_count |-> 0, madad_count |-> 0])

\* sum(1 for e, _ in participants if e == event)
CountOf(participants, event) ==
    Cardinality({i \in 1..Len(participants) : participants[i][1] = event})

\* the error messages
MsgCollege == <<"collegeName is required">>
MsgCoordinator == <<"coordinatorName is required">>
MsgContact == <<"coordinatorContact must be a valid 10-digit number">>
MsgDance(n) == <<"Dance must have between 5 and 7 participants (got ", n, ")">>
MsgExact(event, required, n) ==
    <<event, " must have exactly ", required,
      IF required = 1 THEN " participant (got " ELSE " participants (got ", n, ")">>

\* "if cond: errors.append(m)"
AppendIfMutant(errs, cond, m) == IF cond /\ errs = <<>> THEN Append(errs, m) ELSE errs
AppendIf(errs, cond, m) == IF cond THEN Append(errs, m) ELSE errs

\* the exact-count checks of lines 129-148, in the order of the code
ExactChecks ==
    << <<"Mock Press", 1>>, <<"Quiz", 2>>, <<"Treasure Hunt", 1>>,
       <<"Marketing", 2>>, <<"Bottle Art", 1>>, <<"Motor Mouth", 1>>,
       <<"Best Manager", 1>>, <<"Shark Tank", 2>>, <<"Mock CID", 2>>,
       <<"Reels Making", 1>> >>

RECURSIVE ExactErrors(_, _, _)
ExactErrors(participants, i, errs) ==
    IF i > Len(ExactChecks) THEN errs
    ELSE LET event == ExactChecks[i][1]
             required == ExactChecks[i][2]
             n == CountOf(participants, event)
         IN ExactErrors(participants, i + 1,
                        AppendIf(errs, n # required, MsgExact(event, required, n)))

\* lines 78-148: the values register holds when it reaches "if errors"
Validate(data) ==
    LET college_name == ReadIdentity(data, <<"collegeName", "">>)
        coordinator_name == ReadIdentity(data, <<"coordinatorName", "">>)
        coordinator_contact == ReadIdentity(data, <<"coordinatorContact", "">>)
        e1 == AppendIf(<<>>, college_name = <<>>, MsgCollege)
        e2 == AppendIf(e1, coordinator_name = <<>>, MsgCoordinator)
        e3 == AppendIf(e2, ~is_valid_phone(coordinator_contact), MsgContact)
        c == Collect(data)
        e4 == AppendIf(e3, ~(5 <= c.dance_count /\ c.dance_count <= 7),
                       MsgDance(c.dance_count))
        e5 == AppendIf(e4, c.madad_count # 6, MsgExact("Mad Ad", 6, c.madad_count))
        e6 == ExactErrors(c.participants, 1, e5)
    IN [college_name |-> college_name,
        coordinator_name |-> coordinator_name,
        coordinator_contact |-> coordinator_contact,
        participants |-> c.participants,
        errors |-> e6]

\* "if errors:" at line 150
HasErrorsMutant(v) == FALSE
HasErrors(v) == v.errors # <<>>

\* ------------------------------------------------------------------------
\* Inputs: JSON objects a client can submit
\* ------------------------------------------------------------------------
KeyCollege == <<"collegeName", "">>
KeyCoordinator == <<"coordinatorName", "">>
KeyContact == <<"coordinatorContact", "">>
IdentityKeys == {KeyCollege, KeyCoordinator, KeyContact}
CatalogKeys == {EVENT_FIELDS[i][1] : i \in 1..Len(EVENT_FIELDS)}
UnknownKeys == {<<"dance", "8">>, <<"nickname", "">>}
AllKeys == IdentityKeys \cup CatalogKeys \cup UnknownKeys

Name == <<"A">>
Ten == <<"9", "8", "7", "6", "5", "4", "3", "2", "1", "0">>
Sup == [i \in 1..10 |-> "sup2"]

GeneralValues ==
    {JStr(<<>>), JStr(<<" ">>), JStr(Name), JStr(<<" ", "B", " ">>),
     JNum(<<"7">>), JTrue, JNull, JObj}

PhoneValues ==
    {JStr(<<>>), JStr(<<" ">>), JStr(Ten), JStr(<<" ">> \o Ten \o <<" ">>),
     JStr(SubSeq(Ten, 1, 9)), JStr(Ten \o <<"1">>),
     JStr(SubSeq(Ten, 1, 5) \o <<"a", "b", "c", "d", "e">>),
     JStr(SubSeq(Ten, 1, 5) \o <<" ">> \o SubSeq(Ten, 1, 4)),
     JStr(Sup), JStr(SubSeq(Ten, 1, 9) \o <<"sup2">>),
     JNum(Ten), JNum(<<"7">>), JTrue, JNull, JObj}

\* the key is removed from the object
Absent == [t |-> "absent", s |-> <<>>]

SlotValues == {JStr(<<" ">>), JStr(Name), JStr(<<" ", "B", " ">>), JNum(<<"7">>), JNull}

EditSet ==
    {[k |-> k, v |-> v] : k \in {KeyCollege, KeyCoordinator}, v \in GeneralValues \cup {Absent}}
    \cup {[k |-> KeyContact, v |-> v] : v \in PhoneValues \cup {Absent}}
    \cup {[k |-> k, v |-> v] : k \in CatalogKeys \cup UnknownKeys, v \in SlotValues \cup {Absent}}

ApplyEdit(d, e) ==
    IF e.v = Absent
    THEN [k \in DOMAIN d \ {e.k} |-> d[k]]
    ELSE [k \in DOMAIN d \cup {e.k} |-> IF k = e.k THEN e.v ELSE d[k]]

RECURSIVE ApplyEdits(_, _)
ApplyEdits(d, es) ==
    IF es = <<>> THEN d ELSE ApplyEdits(ApplyEdit(d, Head(es)), Tail(es))

\* a complete form with the first n dance slots filled
Base(n) ==
    [k \in IdentityKeys
           \cup {EVENT_FIELDS[i][1] : i \in {j \in 1..Len(EVENT_FIELDS) : j > 7 \/ j <= n}}
       |-> IF k = KeyContact THEN JStr(Ten) ELSE JStr(Name)]

EmptyObject == [k \in {} |-> JNull]

Bases == {Base(4), Base(5), Base(7), EmptyObject}

\* ------------------------------------------------------------------------
\* State
\* ------------------------------------------------------------------------
VARIABLES
    submission,     \* validation run: the JSON object under validation
    outcome,        \* validation run: what lines 78-148 computed for it
    pc,             \* per request: position in register
    payload,        \* per request: the request body
    val,            \* per request: the locals of lines 78-148
    cnx,            \* per request: "none", "open" or "closed"
    txn,            \* per request: rows written on its connection, uncommitted
    lastrowid,      \* per request: cursor.lastrowid
    college_id,     \* per request: the local college_id
    idx,            \* per request: position of the loop over participants
    response,       \* per request: the response the client received
    history,        \* per request: statements executed and returns made
    colleges,       \* storage: committed rows of table colleges
    participantRows, \* storage: committed rows of table participants (a bag)
    nextId          \* storage: AUTO_INCREMENT counter of colleges

vars == <<submission, outcome, pc, payload, val, cnx, txn, lastrowid, college_id,
          idx, response, history, colleges, participantRows, nextId>>

valVars == <<submission, outcome>>
reqVars == <<pc, payload, val, cnx, txn, lastrowid, college_id, idx, response,
             history, colleges, participantRows, nextId>>

Requests == 1..NumRequests

NoVal ==
    [ran |-> FALSE, college_name |-> <<>>, coordinator_name |-> <<>>,
     coordinator_contact |-> <<>>, participants |-> <<>>, errors |-> <<>>]

Ran(v) ==
    [ran |-> TRUE, college_name |-> v.college_name,
     coordinator_name |-> v.coordinator_name,
     coordinator_contact |-> v.coordinator_contact,
     participants |-> v.participants, errors |-> v.errors]

\* ------------------------------------------------------------------------
\* Request bodies and responses
\* ------------------------------------------------------------------------
\* kind "nojson": no JSON content type, request.is_json is false;
\* "malformed": get_json(silent=True) returns None; the others are the
\* JSON value the body parses to.
Body(kind) == [kind |-> kind, obj |-> EmptyObject]
ObjectBody(obj) == [kind |-> "object", obj |-> obj]

NonObjectKinds == {"nojson", "malformed", "null", "array", "string", "number", "bool"}

RequestBodies ==
    {Body(k) : k \in NonObjectKinds}
    \cup {ObjectBody(Base(5)), ObjectBody(Base(4))}

NoBody == Body("none")

Resp(status, kind, text, errors, cid, count) ==
    [status |-> status, kind |-> kind, text |-> text, errors |-> errors,
     college_id |-> cid, participants_count |-> count]

NoResp == Resp(0, "none", "", <<>>, 0, 0)

\* lines 72, 76, 151
NotJsonResp == Resp(400, "shape", "Request must be JSON", <<>>, 0, 0)
InvalidBodyResp == Resp(400, "shape", "Invalid JSON body", <<>>, 0, 0)
ErrorsResp(errors) == Resp(400, "validation", "", errors, 0, 0)

\* data.get on a list, str, int or bool raises AttributeError outside the
\* try block: the framework answers 500 Internal Server Error
UnhandledResp == Resp(500, "unhandled", "AttributeError", <<>>, 0, 0)

\* lines 175-181
SuccessRespMutant(cid, participants) ==
    Resp(201, "success", "Registration submitted successfully!", <<>>, cid,
         Cardinality({participants[i] : i \in 1..Len(participants)}))
SuccessResp(cid, participants) ==
    Resp(201, "success", "Registration submitted successfully!", <<>>, cid,
         Len(participants))

\* lines 183-188; the details string names the statement that raised
ErrorKinds == {"db_error", "unexpected"}
FailureResp(kind, at) == Resp(500, kind, at, <<>>, 0, 0)

NoTxn == [colleges |-> {}, participants |-> EmptyBag]
NoHistory == [college_inserts |-> 0, returns |-> 0]

\* ------------------------------------------------------------------------
\* Validation run: one submission, validated once
\* ------------------------------------------------------------------------
ReqInit ==
    /\ pc = [r \in Requests |-> "start"]
    /\ payload = [r \in Requests |-> NoBody]
    /\ val = [r \in Requests |-> NoVal]
    /\ cnx = [r \in Requests |-> "none"]
    /\ txn = [r \in Requests |-> NoTxn]
    /\ lastrowid = [r \in Requests |-> 0]
    /\ college_id = [r \in Requests |-> 0]
    /\ idx = [r \in Requests |-> 0]
    /\ response = [r \in Requests |-> NoResp]
    /\ history = [r \in Requests |-> NoHistory]
    /\ colleges = {}
    /\ participantRows = EmptyBag
    /\ nextId = 1

InitValidate ==
    /\ \E base \in Bases : \E n \in 0..MaxEdits : \E es \in [1..n -> EditSet] :
           submission = ApplyEdits(base, es)
    /\ outcome = NoVal
    /\ ReqInit

\* lines 78-148 applied to the submission
RunValidate ==
    /\ ~outcome.ran
    /\ outcome' = Ran(Validate(submission))
    /\ UNCHANGED <<submission, reqVars>>

NextValidate == RunValidate

SpecValidate == InitValidate /\ [][NextValidate]_vars

\* ------------------------------------------------------------------------
\* Requests: register, one thread per request, over shared storage
\* ------------------------------------------------------------------------
Init ==
    /\ submission = EmptyObject
    /\ outcome = NoVal
    /\ ReqInit

\* the handler returns: nothing of the request changes afterwards
Return(r, resp, inserts) ==
    /\ response' = [response EXCEPT ![r] = resp]
    /\ history' = [history EXCEPT ![r] = [college_inserts |-> @.college_inserts + inserts,
                                          returns |-> @.returns + 1]]
    /\ pc' = [pc EXCEPT ![r] = "done"]

\* lines 78-148 on each object body a request can carry (evaluated once)
Validated == [obj \in {b.obj : b \in {c \in RequestBodies : c.kind = "object"}}
                 |-> Ran(Validate(obj))]

\* lines 69-151: everything register does before it touches storage
Register(r) ==
    /\ pc[r] = "start"
    /\ \E body \in RequestBodies :
        /\ payload' = [payload EXCEPT ![r] = body]
        /\ IF body.kind = "nojson"
           THEN Return(r, NotJsonResp, 0) /\ UNCHANGED val
           ELSE IF body.kind \in {"malformed", "null"}
           THEN Return(r, InvalidBodyResp, 0) /\ UNCHANGED val
           ELSE IF body.kind # "object"
           THEN Return(r, UnhandledResp, 0) /\ UNCHANGED val
           ELSE LET v == Validated[body.obj]
                IN /\ val' = [val EXCEPT ![r] = v]
                   /\ IF HasErrors(v)
                      THEN Return(r, ErrorsResp(v.errors), 0)
                      ELSE /\ pc' = [pc EXCEPT ![r] = "connect"]
                           /\ UNCHANGED <<response, history>>
    /\ UNCHANGED <<cnx, txn, lastrowid, college_id, idx,
                   colleges, participantRows, nextId, valVars>>

\* "if cnx: cnx.close()" of the finally block
CloseMutant(c, resp) == IF c = "open" /\ resp.kind = "success" THEN "closed" ELSE c
Close(c, resp) == IF c = "open" THEN "closed" ELSE c

\* the committed college rows once the except clause and the finally block of
\* request r have run: neither deletes anything
AfterFinallyMutant(r, resp) ==
    IF resp.kind # "success" THEN {row \in colleges : row.by # r} ELSE colleges
AfterFinally(r, resp) == colleges

\* lines 183-199 and the return: the return value resp is built (by the
\* return statement of line 177 or by an except clause), the finally block
\* closes cursor and connection, which makes the server roll back what the
\* connection had not committed, and resp reaches the client.  All of it is
\* local to the request's thread but for the close.
Finally(r, resp, inserts) ==
    /\ cnx' = [cnx EXCEPT ![r] = Close(@, resp)]
    /\ txn' = [txn EXCEPT ![r] = NoTxn]
    /\ colleges' = AfterFinally(r, resp)
    /\ idx' = [idx EXCEPT ![r] = 0]
    /\ Return(r, resp, inserts)

\* a statement of the try block raises mysql.connector.Error ("db_error") or
\* another Exception ("unexpected")
Raise(r, at, inserts) ==
    /\ \E kind \in ErrorKinds : Finally(r, FailureResp(kind, at), inserts)
    /\ UNCHANGED <<payload, val, lastrowid, college_id, participantRows, nextId, valVars>>

\* line 157: cnx = get_db_connection()
Connect(r) ==
    /\ pc[r] = "connect"
    /\ \/ /\ cnx' = [cnx EXCEPT ![r] = "open"]
          /\ pc' = [pc EXCEPT ![r] = "cursor"]
          /\ UNCHANGED <<payload, val, txn, lastrowid, college_id, idx, response,
                         history, colleges, participantRows, nextId, valVars>>
       \/ Raise(r, "connect", 0)

\* line 158: cursor = cnx.cursor(); when it raises the connection is open
\* and the cursor is still None
OpenCursor(r) ==
    /\ pc[r] = "cursor"
    /\ \/ /\ pc' = [pc EXCEPT ![r] = "insert_college"]
          /\ UNCHANGED <<payload, val, cnx, txn, lastrowid, college_id, idx, response,
                         history, colleges, participantRows, nextId, valVars>>
       \/ Raise(r, "cursor", 0)

CollegeRow(r, id) ==
    [id |-> id, college_name |-> val[r].college_name,
     coordinator_name |-> val[r].coordinator_name,
     coordinator_contact |-> val[r].coordinator_contact, by |-> r]

\* line 164: cursor.execute(insert_college, ...)
InsertCollege(r) ==
    /\ pc[r] = "insert_college"
    /\ \/ /\ txn' = [txn EXCEPT ![r].colleges = @ \cup {CollegeRow(r, nextId)}]
          /\ lastrowid' = [lastrowid EXCEPT ![r] = nextId]
          /\ nextId' = nextId + 1
          /\ history' = [history EXCEPT ![r].college_inserts = @ + 1]
          /\ pc' = [pc EXCEPT ![r] = "commit_college"]
          /\ UNCHANGED <<payload, val, cnx, college_id, idx, response,
                         colleges, participantRows, valVars>>
       \/ Raise(r, "insert_college", 1)

\* cursor.lastrowid as line 166 reads it
cursor_lastrowidMutant(r) == nextId - 1
cursor_lastrowid(r) == lastrowid[r]

\* lines 165-166: cnx.commit(); college_id = cursor.lastrowid
CommitCollege(r) ==
    /\ pc[r] = "commit_college"
    /\ \/ /\ colleges' = colleges \cup txn[r].colleges
          /\ txn' = [txn EXCEPT ![r].colleges = {}]
          /\ college_id' = [college_id EXCEPT ![r] = cursor_lastrowid(r)]
          /\ idx' = [idx EXCEPT ![r] = 1]
          /\ pc' = [pc EXCEPT ![r] = "insert_participant"]
          /\ UNCHANGED <<payload, val, cnx, lastrowid, response, history,
                         participantRows, nextId, valVars>>
       \/ Raise(r, "commit_college", 0)

ParticipantRow(r, i) ==
    [college_id |-> college_id[r], event_name |-> val[r].participants[i][1],
     participant_name |-> val[r].participants[i][2], by |-> r]

\* lines 172-173: one iteration of the loop over participants
InsertParticipant(r) ==
    /\ pc[r] = "insert_participant"
    /\ idx[r] <= Len(val[r].participants)
    /\ \/ /\ txn' = [txn EXCEPT ![r].participants =
                                    @ (+) SetToBag({ParticipantRow(r, idx[r])})]
          /\ idx' = [idx EXCEPT ![r] = @ + 1]
          /\ UNCHANGED <<pc, payload, val, cnx, lastrowid, college_id, response,
                         history, colleges, participantRows, nextId, valVars>>
       \/ Raise(r, "insert_participant", 0)

\* lines 174-181: cnx.commit() after the loop, then the success return
CommitParticipants(r) ==
    /\ pc[r] = "insert_participant"
    /\ idx[r] > Len(val[r].participants)
    /\ \/ /\ participantRows' = participantRows (+) txn[r].participants
          /\ Finally(r, SuccessResp(college_id[r], val[r].participants), 0)
          /\ UNCHANGED <<payload, val, lastrowid, college_id, nextId, valVars>>
       \/ Raise(r, "commit_participants", 0)

Next ==
    \E r \in Requests :
        \/ Register(r)
        \/ Connect(r)
        \/ OpenCursor(r)
        \/ InsertCollege(r)
        \/ CommitCollege(r)
        \/ InsertParticipant(r)
        \/ CommitParticipants(r)

Spec == Init /\ [][Next]_vars

\* ------------------------------------------------------------------------
\* Vocabulary of the properties
\* ------------------------------------------------------------------------
Range(f) == {f[i] : i \in DOMAIN f}

\* number of catalog slots of an event whose value, read as an event field,
\* is non-empty
Filled(d, event) ==
    Cardinality({i \in 1..Len(EVENT_FIELDS) :
                    EVENT_FIELDS[i][2] = event /\ ReadEvent(d, EVENT_FIELDS[i][1]) # <<>>})

\* the events with an exact cardinality rule, in the order of the error list
ExactEvents ==
    <<"Mock Press", "Quiz", "Treasure Hunt", "Marketing", "Bottle Art",
      "Motor Mouth", "Best Manager", "Shark Tank", "Mock CID", "Reels Making">>

RequiredCount(event) ==
    CASE event \in {"Quiz", "Marketing", "Shark Tank", "Mock CID"} -> 2
      [] event = "Mad Ad" -> 6
      [] OTHER -> 1

OnlyDecimalDigits(s) == \A i \in 1..Len(s) : s[i] \in AsciiDigits

\* the object without the keys that are neither identity nor catalog keys
KnownPart(d) == [k \in DOMAIN d \ UnknownKeys |-> d[k]]

\* the committed participant rows that reference college id
RowsFor(id) ==
    [row \in {x \in BagToSet(participantRows) : x.college_id = id}
        |-> participantRows[row]]

CommittedCollegeOf(r, id) == \E row \in colleges : row.by = r /\ row.id = id

RowsBy(r) == {x \in BagToSet(participantRows) : x.by = r}

\* ------------------------------------------------------------------------
\* C1
\* ------------------------------------------------------------------------
C1Conditions(d) ==
    LET contact == ReadIdentity(d, KeyContact)
    IN /\ ReadIdentity(d, KeyCollege) # <<>>
       /\ ReadIdentity(d, KeyCoordinator) # <<>>
       /\ contact # <<>> /\ OnlyDecimalDigits(contact) /\ Len(contact) = 10
       /\ Filled(d, "Dance") \in 5..7
       /\ Filled(d, "Mad Ad") = 6
       /\ \A i \in 1..Len(ExactEvents) :
              Filled(d, ExactEvents[i]) = RequiredCount(ExactEvents[i])

\* C1: validation of a JSON object produces zero errors exactly when both
\* names are non-empty after trimming, the trimmed contact is 10 decimal
\* digit characters, Dance has 5 to 7 filled slots, Mad Ad 6, and every
\* other event its required number.
C1_ZeroErrorsIffAllRules ==
    outcome.ran => ((outcome.errors = <<>>) <=> C1Conditions(submission))

\* ------------------------------------------------------------------------
\* C2
\* ------------------------------------------------------------------------
\* every check with whether the submission violates it and its message
Checks(d) ==
    << <<ReadIdentity(d, KeyCollege) = <<>>, MsgCollege>>,
       <<ReadIdentity(d, KeyCoordinator) = <<>>, MsgCoordinator>>,
       <<~is_valid_phone(ReadIdentity(d, KeyContact)), MsgContact>>,
       <<Filled(d, "Dance") \notin 5..7, MsgDance(Filled(d, "Dance"))>>,
       <<Filled(d, "Mad Ad") # 6, MsgExact("Mad Ad", 6, Filled(d, "Mad Ad"))>> >>
    \o [i \in 1..Len(ExactEvents) |->
           <<Filled(d, ExactEvents[i]) # RequiredCount(ExactEvents[i]),
             MsgExact(ExactEvents[i], RequiredCount(ExactEvents[i]),
                      Filled(d, ExactEvents[i]))>>]

IsViolated(check) == check[1]

ExpectedErrors(d) ==
    LET violated == SelectSeq(Checks(d), IsViolated)
    IN [i \in 1..Len(violated) |-> violated[i][2]]

\* C2: the error list holds one message per violated check and none for a
\* satisfied one, in the order collegeName, coordinatorName,
\* coordinatorContact, Dance, Mad Ad, then the ten exact-count events, and
\* each count message carries the number of filled slots of its event.
C2_ErrorsCompleteAndOrdered ==
    outcome.ran => outcome.errors = ExpectedErrors(submission)

C2_Witness ==
    /\ outcome.ran
    /\ Len(outcome.errors) >= 2
    /\ MsgDance(4) \in Range(outcome.errors)

\* ------------------------------------------------------------------------
\* C3
\* ------------------------------------------------------------------------
\* C3: a request whose body is absent, malformed or a JSON value that is
\* not an object is rejected with the input-shape error, without any
\* validation and without a storage connection.
C3_NonObjectRejectedAsShapeError ==
    \A r \in Requests :
        (pc[r] = "done" /\ payload[r].kind \in NonObjectKinds)
            => /\ response[r].kind = "shape"
               /\ ~val[r].ran
               /\ cnx[r] = "none"

\* ------------------------------------------------------------------------
\* C4
\* ------------------------------------------------------------------------
ExpectedRow(r, id, entry) ==
    [college_id |-> id, event_name |-> entry[1], participant_name |-> entry[2], by |-> r]

\* C4: a success response carries the generated id of the committed college
\* row of the request, one committed participant row per entry of the
\* participant list references that id, and participants_count is the
\* length of the list and the number of those rows; a request whose college
\* row has fewer participant rows than entries has not answered success.
C4_SuccessMeansEverythingCommitted ==
    \A r \in Requests :
        LET list == val[r].participants
            id == response[r].college_id
        IN /\ response[r].kind = "success"
                => /\ id > 0
                   /\ CollegeRow(r, id) \in colleges
                   /\ \A i \in 1..Len(list) :
                          CopiesIn(ExpectedRow(r, id, list[i]), participantRows)
                              = Cardinality({j \in 1..Len(list) : list[j] = list[i]})
                   /\ response[r].participants_count = Len(list)
                   /\ BagCardinality(RowsFor(id)) = Len(list)
           /\ (pc[r] = "done"
               /\ \E row \in colleges :
                      row.by = r /\ BagCardinality(RowsFor(row.id)) < Len(list))
                => response[r].kind # "success"

C4_Witness ==
    \E r \in Requests :
        /\ response[r].kind = "success"
        /\ response[r].participants_count = 25
        /\ \E q \in Requests : q # r /\ CommittedCollegeOf(q, college_id[q])

\* ------------------------------------------------------------------------
\* C5
\* ------------------------------------------------------------------------
\* C5: a value gives the same trimmed string whether it is supplied for an
\* identity field or for an event field, and a value that is empty as an
\* event slot produces the required-field error as collegeName or
\* coordinatorName.
C5_UniformCoercion ==
    outcome.ran =>
        /\ \A k \in IdentityKeys : ReadIdentity(submission, k) = ReadEvent(submission, k)
        /\ ReadEvent(submission, KeyCollege) = <<>> => MsgCollege \in Range(outcome.errors)
        /\ ReadEvent(submission, KeyCoordinator) = <<>>
               => MsgCoordinator \in Range(outcome.errors)

\* ------------------------------------------------------------------------
\* C6
\* ------------------------------------------------------------------------
IsFilledSlot(i) == ReadEvent(submission, EVENT_FIELDS[i][1]) # <<>>

ExpectedParticipants ==
    LET slots == SelectSeq([i \in 1..Len(EVENT_FIELDS) |-> i], IsFilledSlot)
    IN [j \in 1..Len(slots) |->
           <<EVENT_FIELDS[slots[j]][2], ReadEvent(submission, EVENT_FIELDS[slots[j]][1])>>]

\* C6: the participant list is, in catalog order, the (event name, trimmed
\* value) of the catalog keys whose value is non-empty; absent and
\* whitespace-only fields add nothing, and keys outside the catalog change
\* neither the list, nor a count, nor the errors.
C6_ParticipantListIsCatalogProjection ==
    outcome.ran =>
        /\ outcome.participants = ExpectedParticipants
        /\ \A i \in 1..Len(EVENT_FIELDS) :
               CountOf(outcome.participants, EVENT_FIELDS[i][2])
                   = Filled(KnownPart(submission), EVENT_FIELDS[i][2])
        /\ LET known == Validate(KnownPart(submission))
           IN /\ outcome.errors = known.errors
              /\ outcome.participants = known.participants

C6_Witness ==
    /\ outcome.ran
    /\ <<"dance", "8">> \in DOMAIN submission
    /\ ReadEvent(submission, <<"dance", "8">>) # <<>>
    /\ \E k \in CatalogKeys : k \notin DOMAIN submission
    /\ Len(outcome.participants) >= 2
    /\ outcome.errors = <<>>

\* ------------------------------------------------------------------------
\* C7
\* ------------------------------------------------------------------------
AttemptedParticipantInsert(r) ==
    \/ txn[r].participants # EmptyBag
    \/ RowsBy(r) # {}
    \/ response[r].text \in {"insert_participant", "commit_participants"}

WroteNothing(r) ==
    /\ txn[r] = NoTxn
    /\ RowsBy(r) = {}
    /\ \A row \in colleges : row.by # r

\* C7: a participant insert is attempted only after validation found no
\* error and the college row of the request is committed; a request with a
\* validation error opens no connection and writes nothing; a request whose
\* college insert or its commit failed attempts no participant insert and
\* reports a failure.
C7_ParticipantsOnlyAfterCommittedCollege ==
    \A r \in Requests :
        /\ AttemptedParticipantInsert(r)
               => /\ val[r].ran /\ val[r].errors = <<>>
                  /\ CommittedCollegeOf(r, college_id[r])
        /\ (val[r].ran /\ val[r].errors # <<>>)
               => /\ cnx[r] = "none"
                  /\ WroteNothing(r)
                  /\ history[r].college_inserts = 0
        /\ response[r].text \in {"insert_college", "commit_college"}
               => /\ ~AttemptedParticipantInsert(r)
                  /\ response[r].kind \in ErrorKinds
                  /\ response[r].status = 500

C7_Witness ==
    /\ \E r \in Requests : txn[r].participants # EmptyBag
    /\ \E r \in Requests : response[r].text = "commit_college" /\ WroteNothing(r)

\* ------------------------------------------------------------------------
\* C8
\* ------------------------------------------------------------------------
\* C8: under any interleaving of requests, every participant row, committed
\* or pending on a connection, references the college row that the request
\* which wrote the participant row inserted.
C8_RowsReferenceOwnCollege ==
    /\ \A row \in BagToSet(participantRows) : CommittedCollegeOf(row.by, row.college_id)
    /\ \A r \in Requests : \A row \in BagToSet(txn[r].participants) :
           row.by = r /\ CommittedCollegeOf(r, row.college_id)

C8_Witness ==
    \E r \in Requests : \E q \in Requests :
        /\ r # q
        /\ txn[r].participants # EmptyBag
        /\ txn[q].participants # EmptyBag
        /\ lastrowid[r] < lastrowid[q]
        /\ Cardinality(colleges) >= 2

\* ------------------------------------------------------------------------
\* C9
\* ------------------------------------------------------------------------
FailedAfterCollegeCommit(r) ==
    response[r].text \in {"insert_participant", "commit_participants"}

\* C9: when the college insert committed and a participant insert or the
\* commit of the batch failed, the college row stays committed with fewer
\* participant rows than entries, nothing deleted it, the request made one
\* college insert and one return, and the response is an error.
C9_CollegeRowStaysAfterParticipantFailure ==
    \A r \in Requests :
        FailedAfterCollegeCommit(r)
            => /\ CollegeRow(r, college_id[r]) \in colleges
               /\ BagCardinality(RowsFor(college_id[r])) < Len(val[r].participants)
               /\ history[r].college_inserts = 1
               /\ history[r].returns = 1
               /\ response[r].kind \in ErrorKinds
               /\ response[r].status = 500

C9_Witness ==
    /\ \E r \in Requests : response[r].text = "insert_participant"
    /\ \E r \in Requests : response[r].kind = "success"

\* ------------------------------------------------------------------------
\* C10
\* ------------------------------------------------------------------------
PassedValidation(r) == val[r].ran /\ val[r].errors = <<>>

\* C10: a request that has its response has no open connection, whatever
\* exit it took; a connection is open only inside the try block; a request
\* that passed validation and completed returned exactly once.
C10_ConnectionReleasedBeforeResponse ==
    \A r \in Requests :
        /\ response[r].kind # "none" => cnx[r] # "open"
        /\ pc[r] = "done" => cnx[r] # "open"
        /\ cnx[r] = "open"
               => pc[r] \in {"cursor", "insert_college", "commit_college",
                            "insert_participant"}
        /\ history[r].returns <= 1
        /\ (pc[r] = "done" /\ PassedValidation(r))
               => history[r].returns = 1 /\ response[r].kind # "none"

C10_Witness ==
    /\ \A r \in Requests : pc[r] = "done"
    /\ \E r \in Requests : cnx[r] = "closed" /\ response[r].kind = "success"
    /\ \E r \in Requests :
           /\ cnx[r] = "closed"
           /\ response[r].kind = "unexpected"
           /\ response[r].text = "cursor"

====
